---- MODULE Spec2Model ----
(***************************************************************************)
(* CapForEat: the richer application variant of src/index.tsx              *)
(* (lines 438-1238).  The model covers the persistence and resilience      *)
(* layer: compressImage, analyzeImage, analyzeImageWithRetry,              *)
(* saveMealRecord, getMealHistory and the App handlers that drive them.    *)
(* It also covers the App of src/app.tsx with its store (loadData,         *)
(* saveData) and the three variants of the CameraCapture component.        *)
(*                                                                         *)
(* One step of the model is one run-to-completion piece of JavaScript:     *)
(* everything a handler does between two suspension points (an await       *)
(* whose promise is settled by the browser: image load, network reply,     *)
(* timer) is one action.                                                   *)
(***************************************************************************)
EXTENDS Integers, Sequences, FiniteSets, TLC

VARIABLES
    \* ---- environment ----
    apiKey,        \* process.env.API_KEY is set                 (BOOLEAN)
    canvasCtx,     \* canvas.getContext('2d') yields a context    (BOOLEAN)
    quotaLimit,    \* characters the medium accepts for the 'mealHistory' item
    slot,          \* value of localStorage['mealHistory'] (None when absent)
    now,           \* last value read from Date.now()
    \* ---- App component state (useState, index.tsx:1017-1023) ----
    image, result, loading, error, history,
    \* ---- the handleAnalyze execution in flight ----
    pc,            \* suspension point the execution waits at
    flowImage,     \* the image the handler's closure captured
    apiImage,      \* upload variant produced by compressImage
    data,          \* value analyzeImageWithRetry resolved to
    storageImage,  \* storage variant produced inside saveMealRecord
    attempt,       \* loop variable of analyzeImageWithRetry
    \* ---- observation of the executions (history variables) ----
    flows,         \* handleAnalyze executions started
    outcomes,      \* outcome of each analyzeImage call of this invocation
    raws,          \* what the service answered to each call of this invocation
    delays,        \* backoff delays (ms) slept in this invocation
    svcCalls,      \* generateContent calls of this invocation
    caught,        \* error handleAnalyze caught in this execution (None if none)
    lastSave,      \* observation of the last saveMealRecord execution
    saved,         \* every record ever handed to a save, most recent first
    degraded,      \* some save left the normal path (budget, quota, parse)
    \* ---- the other components ----
    cam,           \* a CameraCapture component and the media streams it obtained
    app,           \* the App of src/app.tsx with its AnalysisPage and its slot
    calls          \* saveMealRecord calls made side by side, none in the App

vars == << apiKey, canvasCtx, quotaLimit, slot, now,
           image, result, loading, error, history,
           pc, flowImage, apiImage, data, storageImage, attempt,
           flows, outcomes, raws, delays, svcCalls, caught,
           lastSave, saved, degraded, cam, app, calls >>

None == [none |-> TRUE]

(***************************************************************************)
(* Bounds of the model.                                                    *)
(***************************************************************************)
MaxFlows == 2          \* handleAnalyze executions per behaviour
MaxLiveFlows == 1      \* handleAnalyze executions per behaviour followed to their end
MaxCalls == 2          \* saveMealRecord calls made side by side
MaxStreams == 2        \* getUserMedia requests per behaviour
MaxAppSaves == 2       \* handleSaveRecord executions per behaviour

(***************************************************************************)
(* Program constants.                                                      *)
(***************************************************************************)
DefaultMaxRetries == 3             \* maxRetries = 3
HistoryCap == 20                   \* .slice(0, 20)
FallbackCap == 10                  \* updatedRecords.slice(0, 10)
QuotaFallbackCap == 5              \* existingRecords.slice(0, 5)
ByteBudget == 4194304              \* 4 * 1024 * 1024
UploadMaxWidth == 800              \* compressImage(image, 800, 0.8)
UploadQuality == 8                 \* 0.8, in tenths
StorageMaxWidth == 200             \* compressImage(image, 200, 0.7)
StorageQuality == 7                \* 0.7, in tenths
StorageKeyLength == 11             \* 'mealHistory'.length
NoStatus == 0                      \* error.status === undefined

Min(a, b) == IF a <= b THEN a ELSE b
Max(a, b) == IF a >= b THEN a ELSE b
Take(s, n) == SubSeq(s, 1, Min(n, Len(s)))

RECURSIVE Pow2(_)
Pow2(n) == IF n <= 0 THEN 1 ELSE 2 * Pow2(n - 1)

(***************************************************************************)
(* Images.  An image is the base64 string the code passes around; the      *)
(* model keeps what the code and the browser read from it: the capture it  *)
(* came from, its pixel size, the length of the string, whether the        *)
(* browser can decode it, and the quality it was re-encoded at (0: as      *)
(* captured).                                                              *)
(***************************************************************************)
Photo == [cap |-> 1, w |-> 1600, h |-> 1200, len |-> 2000000, decodable |-> TRUE, q |-> 0]
Heic == [cap |-> 2, w |-> 4032, h |-> 3024, len |-> 460000, decodable |-> FALSE, q |-> 0]
Captures == {Photo, Heic}

\* canvas.width = img.width * ratio with ratio = min(maxWidth / w, maxWidth / h);
\* the canvas attribute keeps the integer part.
ScaledDimension(d, maxWidth, w, h) == (d * maxWidth) \div Max(w, h)

\* Length of canvas.toDataURL('image/jpeg', quality).split(',')[1]
JpegLength(w, h, quality) == 600 + (w * h * quality) \div 40

\* variant: the missing 2D context is not tested
compressImage_NoContextCheck(base64, maxWidth, quality, ctx) ==
    IF ~base64.decodable THEN base64
    ELSE LET cw == ScaledDimension(base64.w, maxWidth, base64.w, base64.h)
             ch == ScaledDimension(base64.h, maxWidth, base64.w, base64.h)
         IN [cap |-> base64.cap, w |-> cw, h |-> ch,
             len |-> JpegLength(cw, ch, quality), decodable |-> TRUE, q |-> quality]

compressImage(base64, maxWidth, quality, ctx) ==
    IF ~base64.decodable THEN base64                    \* img.onerror
    ELSE IF ~ctx THEN base64                            \* if (!ctx)
    ELSE LET cw == ScaledDimension(base64.w, maxWidth, base64.w, base64.h)
             ch == ScaledDimension(base64.h, maxWidth, base64.w, base64.h)
         IN [cap |-> base64.cap, w |-> cw, h |-> ch,
             len |-> JpegLength(cw, ch, quality), decodable |-> TRUE, q |-> quality]

(***************************************************************************)
(* JSON texts.  A text is modelled by what JSON.parse makes of it.         *)
(***************************************************************************)
\* JSON.stringify of an array of records
JSONStringify(items) == [json |-> "array", items |-> items]

\* the JSON document of one object, as the inference service writes it
ObjectText(fields) == [json |-> "object", fields |-> fields]

InvalidText == [json |-> "invalid"]

\* the four characters null
NullText == [json |-> "null"]

\* JSON.parse: ok = FALSE stands for the SyntaxError it throws
JSONParse(text) ==
    CASE text.json = "array"  -> [ok |-> TRUE, isArray |-> TRUE, value |-> text.items]
      [] text.json = "object" -> [ok |-> TRUE, isArray |-> FALSE, value |-> text.fields]
      [] text.json = "null"   -> [ok |-> TRUE, isArray |-> FALSE, value |-> None]
      [] OTHER                -> [ok |-> FALSE, isArray |-> FALSE, value |-> None]

(***************************************************************************)
(* Analysis results and what the inference service can answer.             *)
(***************************************************************************)
Salad == [foodName |-> "Grilled Chicken Salad", calories |-> 420, servingSize |-> "1 bowl",
          macros |-> [protein |-> 38, carbs |-> 12, fat |-> 18, fiber |-> 5],
          healthAnalysis |-> "balanced", rating |-> 8]
Burger == [foodName |-> "Cheeseburger", calories |-> 750, servingSize |-> "1 burger",
           macros |-> [protein |-> 35, carbs |-> 50, fat |-> 45, fiber |-> 3],
           healthAnalysis |-> "heavy", rating |-> 3]
Results == {Salad, Burger}

\* a JSON object that lacks required fields
Partial == [foodName |-> "Soup", calories |-> 90]

RequiredFields == {"foodName", "calories", "servingSize", "macros", "healthAnalysis", "rating"}
MacroFields == {"protein", "carbs", "fat", "fiber"}

\* a reply of generateContent: response.text, or the error the SDK throws
Reply(text) == [kind |-> "reply", text |-> text]
Failure(status, name, words) ==
    [kind |-> "error", status |-> status, name |-> name, words |-> words]

QuotaFailure == Failure(429, "ApiError", {"quota"})
UnavailableFailure == Failure(503, "ApiError", {})
ForbiddenFailure == Failure(403, "ApiError", {})
BadRequestFailure == Failure(400, "ApiError", {})
InvalidKeyFailure == Failure(400, "ApiError", {"API_KEY"})
FetchFailure == Failure(NoStatus, "TypeError", {"fetch"})
NetworkFailure == Failure(NoStatus, "NetworkError", {})
ServerFailure == Failure(500, "ApiError", {})
ForbiddenQuotaFailure == Failure(403, "ApiError", {"quota"})
MissingKey == [kind |-> "nokey"]

ServiceFailures == { QuotaFailure, UnavailableFailure, ForbiddenFailure, BadRequestFailure,
                     InvalidKeyFailure, FetchFailure, NetworkFailure, ServerFailure,
                     ForbiddenQuotaFailure }
ServiceReplies == { Reply(ObjectText(r)) : r \in Results }
                    \cup { Reply(None), Reply(InvalidText), Reply(ObjectText(Partial)) }
ServiceOutcomes == ServiceReplies \cup ServiceFailures

IsTransient(raw) == raw.kind = "error" /\ raw.status \in {429, 503}
IsNetwork(raw) == raw.kind = "error" /\ (raw.name = "NetworkError" \/ "fetch" \in raw.words)

\* new Error(message): an Error object carries no status property
NewError(msg) == [name |-> "Error", status |-> NoStatus, msg |-> msg]

\* the if/else chain of analyzeImage's catch block
Classify(e) ==
    IF "API_KEY" \in e.words THEN "auth"
    ELSE IF "quota" \in e.words \/ e.status = 429 THEN "quota"
    ELSE IF e.status = 403 THEN "forbidden"
    ELSE IF e.status = 400 THEN "bad_request"
    ELSE IF e.name = "NetworkError" \/ "fetch" \in e.words THEN "network"
    ELSE "unknown"

\* what the catch block of analyzeImage throws for the error it caught
Rethrown(e) == NewError(Classify(e))

\* analyzeImage from the reply of generateContent on: the promise's outcome
analyzeImage(raw) ==
    IF raw.kind = "error" THEN [ok |-> FALSE, err |-> Rethrown(raw)]
    ELSE IF raw.text = None                    \* if (!text) throw new Error(...)
        THEN [ok |-> FALSE, err |-> Rethrown(Failure(NoStatus, "Error", {}))]
    ELSE LET parsed == JSONParse(raw.text)
         IN IF parsed.ok THEN [ok |-> TRUE, value |-> parsed.value]
            ELSE [ok |-> FALSE, err |-> Rethrown(Failure(NoStatus, "SyntaxError", {}))]

\* analyzeImage when process.env.API_KEY is missing
MissingKeyOutcome == [ok |-> FALSE, err |-> NewError("no_api_key")]

(***************************************************************************)
(* analyzeImageWithRetry: the catch block's decision.                      *)
(***************************************************************************)
\* variant: every failure is retried while attempts remain
ShouldRetry_AnyFailure(err, n, maxRetries) == n < maxRetries

\* variant: failures classified as network are retried as well
ShouldRetry_Network(err, n, maxRetries) ==
    (err.status = 503 \/ err.status = 429 \/ err.msg = "network") /\ n < maxRetries

ShouldRetry(err, n, maxRetries) ==
    (err.status = 503 \/ err.status = 429) /\ n < maxRetries

BackoffDelay(n) == Pow2(n) * 1000

\* variant: the try block awaits analyzeImage without returning its value
RetryDecision_NoReturn(outcome, n, maxRetries) ==
    IF outcome.ok THEN (IF n < maxRetries THEN "backoff" ELSE "return")
    ELSE IF ShouldRetry(outcome.err, n, maxRetries) THEN "backoff"
    ELSE "throw"

RetryDecision(outcome, n, maxRetries) ==
    IF outcome.ok THEN "return"
    ELSE IF ShouldRetry(outcome.err, n, maxRetries) THEN "backoff"
    ELSE "throw"

(***************************************************************************)
(* The history store: records, their serialized length, localStorage.      *)
(***************************************************************************)
\* Date.now().toString(): the decimal text of the number, not the number
NumberToString(n) == << "str", n >>

\* the record literal of saveMealRecord; idTime and stampTime are its two
\* Date.now() readings (adjacent reads, taken as the same reading by SaveRecord)
\* variant: the analysis result is left out of the record
MealRecord_NoResult(idTime, stampTime, img, res, mealType) ==
    [id |-> NumberToString(idTime), timestamp |-> stampTime, image |-> img,
     result |-> None, mealType |-> mealType]

\* { id: Date.now().toString(), timestamp: Date.now(), image: storageImage, result, mealType }
MealRecord(idTime, stampTime, img, res, mealType) ==
    [id |-> NumberToString(idTime), timestamp |-> stampTime, image |-> img,
     result |-> res, mealType |-> mealType]

\* characters of a serialized record besides its image string
RecordOverhead == 300

RecordJsonLength(r) == RecordOverhead + r.image.len

RECURSIVE SumLengths(_)
SumLengths(items) ==
    IF items = << >> THEN 0
    ELSE RecordJsonLength(Head(items)) + SumLengths(Tail(items))

\* text.length of a JSON text holding an array of records: brackets, records, commas
StringLength(text) ==
    IF text.json = "array"
        THEN 2 + SumLengths(text.items) + Max(0, Len(text.items) - 1)
        ELSE 4

\* localStorage.getItem('mealHistory') || '[]'
GetItemOrDefault(store) == IF store = None THEN JSONStringify(<< >>) ELSE store

\* localStorage.setItem throws QuotaExceededError
SetItemThrows(text, limit) == StorageKeyLength + StringLength(text) > limit

\* variant: the new record is appended instead of prepended
UpdatedRecords_Append(record, existingRecords) ==
    Take(existingRecords \o << record >>, HistoryCap)

\* [record, ...existingRecords].slice(0, 20)
UpdatedRecords(record, existingRecords) ==
    Take(<< record >> \o existingRecords, HistoryCap)

\* updatedRecords.slice(0, 10)
MinimalRecords(updatedRecords) == Take(updatedRecords, FallbackCap)

\* variant: the catch block keeps the five oldest records
RecentRecords_OldEnd(existingRecords) ==
    SubSeq(existingRecords, Max(1, Len(existingRecords) - QuotaFallbackCap + 1),
           Len(existingRecords))

\* existingRecords.slice(0, 5) of the catch block
RecentRecords(existingRecords) == Take(existingRecords, QuotaFallbackCap)

\* testData.length > 4 * 1024 * 1024
OverBudget(updatedRecords) == StringLength(JSONStringify(updatedRecords)) > ByteBudget

QuotaExceededError == [name |-> "QuotaExceededError", status |-> NoStatus, msg |-> "storage_quota"]

(***************************************************************************)
(* saveMealRecord after its two compressImage awaits: the synchronous      *)
(* read-modify-write of the slot with both catch paths.  Yields the new    *)
(* slot value, the path taken and the error the call rejects with.         *)
(***************************************************************************)
saveMealRecord(store, record, limit) ==
    LET parsed == JSONParse(GetItemOrDefault(store))
    IN  IF ~parsed.ok \/ ~parsed.isArray
            \* SyntaxError of JSON.parse or TypeError of the spread: logged
        THEN [slot |-> store, path |-> "not_saved", over |-> FALSE,
              toPersist |-> << >>, raised |-> None]
        ELSE
        LET existingRecords == parsed.value
            updatedRecords == UpdatedRecords(record, existingRecords)
            over == OverBudget(updatedRecords)
            toWrite == IF over THEN MinimalRecords(updatedRecords) ELSE updatedRecords
            recentRecords == RecentRecords(existingRecords)
        IN  IF ~SetItemThrows(JSONStringify(toWrite), limit)
            THEN [slot |-> JSONStringify(toWrite), path |-> "written", over |-> over,
                  toPersist |-> updatedRecords, raised |-> None]
            ELSE IF ~SetItemThrows(JSONStringify(recentRecords), limit)
            THEN [slot |-> JSONStringify(recentRecords), path |-> "quota_fallback",
                  over |-> over, toPersist |-> updatedRecords, raised |-> None]
            ELSE [slot |-> store, path |-> "quota_fallback_failed", over |-> over,
                  toPersist |-> updatedRecords, raised |-> QuotaExceededError]

\* what getMealHistory returns, with whether it is an array
getMealHistoryResult(store) ==
    LET parsed == JSONParse(GetItemOrDefault(store))
    IN  IF parsed.ok THEN [isArray |-> parsed.isArray, value |-> parsed.value]
        ELSE [isArray |-> TRUE, value |-> << >>]               \* catch: return []

getMealHistory(store) == getMealHistoryResult(store).value

\* the records a slot holds when it holds an array, none otherwise
StoredRecords(store) ==
    IF getMealHistoryResult(store).isArray THEN getMealHistory(store) ELSE << >>

(***************************************************************************)
(* The store of src/app.tsx: one slot named capforeat_data.                *)
(***************************************************************************)
AppStorageKeyLength == 14

\* what loadData returns, with whether it is an array: data ? JSON.parse(data) : []
loadDataResult(store) ==
    IF store = None THEN [isArray |-> TRUE, value |-> << >>]
    ELSE LET parsed == JSONParse(store)
         IN  IF parsed.ok THEN [isArray |-> parsed.isArray, value |-> parsed.value]
             ELSE [isArray |-> TRUE, value |-> << >>]           \* catch: return []

loadData(store) == loadDataResult(store).value

\* the records the slot of src/app.tsx holds when it holds an array
AppStoredRecords(store) ==
    IF loadDataResult(store).isArray THEN loadData(store) ELSE << >>

\* localStorage.setItem(STORAGE_KEY, ...) throws QuotaExceededError
AppSetItemThrows(text, limit) == AppStorageKeyLength + StringLength(text) > limit

\* saveData: the write, or nothing when setItem throws (logged)
saveData(store, records, limit) ==
    IF AppSetItemThrows(JSONStringify(records), limit) THEN store
    ELSE JSONStringify(records)

\* { ...result, id: Date.now().toString(), timestamp: Date.now(), image: analysisImage }
AppRecord(idTime, stampTime, img, res) ==
    [id |-> NumberToString(idTime), timestamp |-> stampTime, image |-> img] @@ res

\* [...records, newRecord]
AppUpdatedRecords(records, newRecord) == records \o << newRecord >>

(***************************************************************************)
(* Initial states: the page has just been loaded.  localStorage survives   *)
(* page loads, so the slot starts with whatever earlier sessions left.     *)
(***************************************************************************)
Thumbnail == compressImage(Photo, StorageMaxWidth, StorageQuality, TRUE)

\* a history of n records saved one millisecond apart, most recent first
Preloaded(n, img) ==
    [i \in 1..n |-> MealRecord(n - i + 1, n - i + 1, img, Salad, "snack")]

\* room the medium leaves for the item: storage disabled, nearly full, browser default
QuotaLimits == {0, 40000, 5242880}

\* milliseconds the clock advanced since the previous save read it
ClockSteps == {0, 1}

\* no CameraCapture is rendered: cameraOpen is false, no stream was requested
CameraClosed(variant) ==
    [variant |-> variant, mounted |-> FALSE, stream |-> 0, cameraStarted |-> FALSE,
     permissionError |-> FALSE, pending |-> {}, orphaned |-> {}, running |-> {},
     requests |-> 0, exit |-> "none"]

\* the page of src/app.tsx is not loaded; its slot holds what earlier sessions left
AppUnloaded(store) ==
    [mounted |-> FALSE, slot |-> store, isArray |-> TRUE, records |-> << >>,
     currentPage |-> "home", captureMode |-> FALSE, analysisImage |-> None,
     loading |-> FALSE, result |-> None, error |-> None, pc |-> "idle",
     saves |-> 0, lastOp |-> "none"]

AppUnmounted == AppUnloaded(None)

InitWith(keys, ctxs, limits, slots) ==
    /\ apiKey \in keys
    /\ canvasCtx \in ctxs
    /\ quotaLimit \in limits
    /\ slot \in slots
    /\ slot # None => ~SetItemThrows(slot, quotaLimit)
    /\ now = Len(StoredRecords(slot))
    /\ image = None /\ result = None /\ loading = FALSE /\ error = None
    /\ history = getMealHistory(slot)              \* useEffect(..., []) on mount
    /\ pc = "idle" /\ flowImage = None /\ apiImage = None /\ data = None
    /\ storageImage = None /\ attempt = 0
    /\ flows = 0 /\ outcomes = << >> /\ raws = << >> /\ delays = << >>
    /\ svcCalls = 0 /\ caught = None /\ lastSave = None
    /\ saved = StoredRecords(slot) /\ degraded = FALSE
    /\ cam = CameraClosed("richer")
    /\ app = AppUnmounted
    /\ calls = << >>

Init ==
    InitWith(BOOLEAN, BOOLEAN, {5242880},
             {None, JSONStringify(Preloaded(2, Thumbnail))})

StoreSlots ==
    {None} \cup { JSONStringify(Preloaded(n, Thumbnail)) : n \in {6, 20} }
           \cup { JSONStringify(Preloaded(n, Heic)) : n \in {9} }

InitStore == InitWith({TRUE}, {TRUE}, QuotaLimits, StoreSlots)

(***************************************************************************)
(* User events.                                                            *)
(***************************************************************************)
envVars == << apiKey, canvasCtx, quotaLimit >>
otherVars == << cam, app, calls >>
flowVars == << pc, flowImage, apiImage, data, storageImage, attempt >>
obsVars == << flows, outcomes, raws, delays, svcCalls, caught, lastSave, saved, degraded >>

\* handleCameraCapture / handleFileUpload: offered while no image is held
Capture ==
    /\ image = None
    /\ \E img \in Captures : image' = img
    /\ result' = None
    /\ error' = None
    /\ UNCHANGED << otherVars, envVars, slot, now, loading, history, flowVars, obsVars >>

\* reset: the Reset and 'Scan Another Meal' buttons, offered while an image is held
Reset ==
    /\ image # None
    /\ image' = None
    /\ result' = None
    /\ error' = None
    /\ UNCHANGED << otherVars, envVars, slot, now, loading, history, flowVars, obsVars >>

\* variant: the analyze button is not disabled while loading
HandleAnalyze_NotDisabled ==
    /\ image # None /\ result = None
    /\ flows < MaxFlows
    /\ loading' = TRUE
    /\ error' = None
    /\ pc' = "compress_upload"
    /\ flowImage' = image
    /\ apiImage' = None /\ data' = None /\ storageImage' = None /\ attempt' = 0
    /\ flows' = flows + 1
    /\ outcomes' = << >> /\ raws' = << >> /\ delays' = << >>
    /\ svcCalls' = 0 /\ caught' = None
    /\ UNCHANGED << otherVars, envVars, slot, now, image, result, history, lastSave, saved, degraded >>

(***************************************************************************)
(* handleAnalyze up to its first await.                                    *)
(***************************************************************************)
HandleAnalyze ==
    /\ image # None /\ result = None /\ ~loading      \* button shown and enabled
    /\ flows < MaxFlows
    /\ loading' = TRUE
    /\ error' = None
    /\ pc' = "compress_upload"
    /\ flowImage' = image
    /\ apiImage' = None /\ data' = None /\ storageImage' = None /\ attempt' = 0
    /\ flows' = flows + 1
    /\ outcomes' = << >> /\ raws' = << >> /\ delays' = << >>
    /\ svcCalls' = 0 /\ caught' = None
    /\ UNCHANGED << otherVars, envVars, slot, now, image, result, history, lastSave, saved, degraded >>

\* variant: the catch block does not call setError
Fails_NoMessage(err) ==
    /\ caught' = err
    /\ error' = None
    /\ loading' = FALSE
    /\ pc' = "idle"

\* variant: there is no finally block
Fails_NoFinally(err) ==
    /\ caught' = err
    /\ error' = [msg |-> err.msg]
    /\ loading' = loading
    /\ pc' = "idle"

\* handleAnalyze's catch and finally blocks
Fails(err) ==
    /\ caught' = err
    /\ error' = [msg |-> err.msg]
    /\ loading' = FALSE
    /\ pc' = "idle"

\* the outcome of the n-th analyzeImage call reaches analyzeImageWithRetry
Settle(outcome, raw, n) ==
    /\ attempt' = n
    /\ outcomes' = Append(outcomes, IF outcome.ok THEN "ok" ELSE outcome.err.msg)
    /\ raws' = Append(raws, raw)
    /\ LET decision == RetryDecision(outcome, n, DefaultMaxRetries)
       IN  CASE decision = "return" ->
                  /\ data' = outcome.value
                  /\ result' = outcome.value            \* setResult(data)
                  /\ pc' = "compress_storage"
                  /\ UNCHANGED << delays, error, loading, caught >>
             [] decision = "backoff" ->
                  /\ delays' = Append(delays, BackoffDelay(n))
                  /\ pc' = "backoff"
                  /\ UNCHANGED << data, result, error, loading, caught >>
             [] OTHER ->
                  /\ Fails(outcome.err)
                  /\ UNCHANGED << data, result, delays >>

\* the loop head of analyzeImageWithRetry and analyzeImage up to its await
BeginAttempt(n) ==
    IF n > DefaultMaxRetries
    THEN /\ Fails(NewError("retries_exhausted"))
         /\ UNCHANGED << attempt, outcomes, raws, delays, svcCalls, data, result >>
    ELSE IF ~apiKey
    THEN /\ Settle(MissingKeyOutcome, MissingKey, n)
         /\ UNCHANGED svcCalls
    ELSE /\ attempt' = n
         /\ svcCalls' = svcCalls + 1
         /\ pc' = "generate"
         /\ UNCHANGED << outcomes, raws, delays, data, result, error, loading, caught >>

\* variant: analyzeImageWithRetry starts on the raw image, before compressImage resolved
UploadImageReady_NoAwait ==
    /\ pc = "compress_upload"
    /\ apiImage' = None
    /\ BeginAttempt(1)
    /\ UNCHANGED << otherVars, envVars, slot, now, image, history, flowImage, storageImage,
                    flows, lastSave, saved, degraded >>

\* compressImage(image, 800, 0.8) resolves; analyzeImageWithRetry starts
UploadImageReady ==
    /\ pc = "compress_upload"
    /\ apiImage' = compressImage(flowImage, UploadMaxWidth, UploadQuality, canvasCtx)
    /\ BeginAttempt(1)
    /\ UNCHANGED << otherVars, envVars, slot, now, image, history, flowImage, storageImage,
                    flows, lastSave, saved, degraded >>

\* the await analyzeImageWithRetry is suspended at settles: the service
\* answers the pending call, or the backoff timer fires
RetryResume ==
    /\ pc \in {"generate", "backoff"}
    /\ IF pc = "generate"
       THEN /\ \E raw \in ServiceOutcomes : Settle(analyzeImage(raw), raw, attempt)
            /\ UNCHANGED svcCalls
       ELSE BeginAttempt(attempt + 1)
    /\ UNCHANGED << otherVars, envVars, slot, now, image, history, flowImage, apiImage, storageImage,
                    flows, lastSave, saved, degraded >>

\* saveMealRecord: compressImage(image, 200, 0.7) resolves
StorageImageReady ==
    /\ pc = "compress_storage"
    /\ storageImage' = compressImage(flowImage, StorageMaxWidth, StorageQuality, canvasCtx)
    /\ pc' = "compress_again"
    /\ UNCHANGED << otherVars, envVars, slot, now, image, result, loading, error, history,
                    flowImage, apiImage, data, attempt, obsVars >>

\* saveMealRecord: compressImage(image, 800, 0.8) resolves; the record is
\* built and stored, then handleAnalyze refreshes history and finishes
SaveRecord ==
    /\ pc = "compress_again"
    /\ \E d \in ClockSteps :
        LET time == now + d
            record == MealRecord(time, time, storageImage, data, "snack")
            out == saveMealRecord(slot, record, quotaLimit)
        IN  /\ now' = time
            /\ slot' = out.slot
            /\ lastSave' = [before |-> getMealHistory(slot), record |-> record,
                            path |-> out.path, over |-> out.over,
                            toPersist |-> out.toPersist, raised |-> out.raised,
                            errorAfter |-> IF out.raised = None THEN error
                                           ELSE [msg |-> out.raised.msg]]
            /\ saved' = << record >> \o saved
            /\ degraded' = (degraded \/ out.path # "written" \/ out.over)
            /\ IF out.raised = None
               THEN /\ history' = getMealHistory(out.slot)   \* setHistory(getMealHistory())
                    /\ UNCHANGED << error, caught >>
               ELSE /\ error' = [msg |-> out.raised.msg]
                    /\ caught' = out.raised
                    /\ UNCHANGED history
    /\ loading' = FALSE
    /\ pc' = "idle"
    /\ UNCHANGED << otherVars, envVars, image, result, flowImage, apiImage, data, storageImage,
                    attempt, flows, outcomes, raws, delays, svcCalls >>

Next ==
    \/ Capture
    \/ Reset
    \/ HandleAnalyze
    \/ UploadImageReady
    \/ RetryResume
    \/ StorageImageReady
    \/ SaveRecord

Spec == Init /\ [][Next]_vars

SpecStore == InitStore /\ [][Next]_vars

\* every await of a pending execution is eventually settled: image decodes,
\* service replies and backoff timers complete; user events are not forced
\* (at most one of the four steps is enabled in a state)
Completion == UploadImageReady \/ RetryResume \/ StorageImageReady \/ SaveRecord

Fairness == WF_vars(Completion)

\* the executions followed to their end: a page loaded over an empty slot
InitLive == InitWith(BOOLEAN, BOOLEAN, {5242880}, {None})

NextLive ==
    \/ Capture
    \/ Reset
    \/ HandleAnalyze /\ flows < MaxLiveFlows
    \/ UploadImageReady
    \/ RetryResume
    \/ StorageImageReady
    \/ SaveRecord

SpecLive == InitLive /\ [][NextLive]_vars /\ Fairness

(***************************************************************************)
(* src/app.tsx: App with HomePage, HistoryPage, SettingsPage, CapturePage  *)
(* and AnalysisPage.  The record app holds the React state of App and of   *)
(* the AnalysisPage it renders, the slot capforeat_data and the name of    *)
(* the handler that ran last.                                              *)
(***************************************************************************)
pageVars == << slot, image, result, loading, error, history, flowVars, obsVars >>

Pages == {"home", "history", "settings"}

\* the bottom navigation and the pages are rendered
AppBrowsing == app.mounted /\ ~app.captureMode /\ app.analysisImage = None

\* AnalysisPage is unmounted: its useState values are gone, a reply still in
\* flight sets state on no component
AnalysisPageGone(a) ==
    [a EXCEPT !.loading = FALSE, !.result = None, !.error = None, !.pc = "idle"]

\* useEffect(() => setRecords(loadData()), []) of App
AppMount ==
    /\ ~app.mounted
    /\ app' = [app EXCEPT !.mounted = TRUE,
                          !.isArray = loadDataResult(app.slot).isArray,
                          !.records = loadData(app.slot),
                          !.lastOp = "mount"]
    /\ UNCHANGED << envVars, pageVars, now, cam, calls >>

\* setCurrentPage of the three navigation buttons
AppNavigate ==
    /\ AppBrowsing
    /\ \E page \in Pages :
          app' = [app EXCEPT !.currentPage = page, !.lastOp = "navigate"]
    /\ UNCHANGED << envVars, pageVars, now, cam, calls >>

\* onAnalyzeNew of HomePage: setCaptureMode(true)
AppAnalyzeNew ==
    /\ AppBrowsing
    /\ app.currentPage = "home"
    /\ app' = [app EXCEPT !.captureMode = TRUE, !.lastOp = "analyzeNew"]
    /\ UNCHANGED << envVars, pageVars, now, cam, calls >>

\* onClose of CapturePage: setCaptureMode(false)
AppCaptureClose ==
    /\ app.mounted /\ app.captureMode /\ app.analysisImage = None
    /\ ~cam.mounted
    /\ app' = [app EXCEPT !.captureMode = FALSE, !.lastOp = "captureClose"]
    /\ UNCHANGED << envVars, pageVars, now, cam, calls >>

\* handleFileUpload of CapturePage: onCapture(base64) is setAnalysisImage
AppFileUpload ==
    /\ app.mounted /\ app.captureMode /\ app.analysisImage = None
    /\ ~cam.mounted
    /\ \E img \in Captures :
          app' = [app EXCEPT !.analysisImage = img, !.lastOp = "upload"]
    /\ UNCHANGED << envVars, pageVars, now, cam, calls >>

\* onBack of AnalysisPage: setAnalysisImage(null)
AppBack ==
    /\ app.mounted /\ app.analysisImage # None
    /\ app' = [AnalysisPageGone(app) EXCEPT !.analysisImage = None, !.lastOp = "back"]
    /\ UNCHANGED << envVars, pageVars, now, cam, calls >>

\* handleAnalyze of AnalysisPage up to its await
AppHandleAnalyze ==
    /\ app.mounted /\ app.analysisImage # None
    /\ app.result = None /\ ~app.loading
    /\ app' = [app EXCEPT !.loading = TRUE, !.error = None, !.pc = "generate",
                          !.lastOp = "analyze"]
    /\ UNCHANGED << envVars, pageVars, now, cam, calls >>

\* analyzeImage of src/app.tsx: no catch, the parsed text is returned as is
appAnalyzeImage(raw) ==
    IF raw.kind = "error" THEN [ok |-> FALSE, err |-> raw]
    ELSE IF raw.text = None                    \* if (!text) throw new Error(...)
        THEN [ok |-> FALSE, err |-> Failure(NoStatus, "Error", {})]
    ELSE LET parsed == JSONParse(raw.text)
         IN  IF parsed.ok THEN [ok |-> TRUE, value |-> parsed.value]
             ELSE [ok |-> FALSE, err |-> Failure(NoStatus, "SyntaxError", {})]

\* the rest of handleAnalyze once generateContent settles
AppAnalyzeSettle ==
    /\ app.mounted /\ app.pc = "generate"
    /\ \E raw \in ServiceOutcomes :
          LET outcome == appAnalyzeImage(raw)
          IN  app' = [app EXCEPT
                        !.result = IF outcome.ok THEN outcome.value ELSE None,
                        !.error = IF outcome.ok THEN None
                                  ELSE "Failed to analyze image. Please try again.",
                        !.loading = FALSE, !.pc = "idle", !.lastOp = "settle"]
    /\ UNCHANGED << envVars, pageVars, now, cam, calls >>

\* handleSave of AnalysisPage and handleSaveRecord of App with saveData
AppHandleSave ==
    /\ app.mounted /\ app.analysisImage # None /\ app.result # None
    /\ app.saves < MaxAppSaves
    /\ \E d \in ClockSteps :
          LET t == now + d
              newRecord == AppRecord(t, t, app.analysisImage, app.result)
              updatedRecords == AppUpdatedRecords(app.records, newRecord)
          IN  /\ now' = t
              /\ app' = [AnalysisPageGone(app) EXCEPT
                            !.records = updatedRecords,
                            !.slot = saveData(app.slot, updatedRecords, quotaLimit),
                            !.analysisImage = None,
                            !.currentPage = "home",
                            !.saves = app.saves + 1,
                            !.lastOp = "save"]
    /\ UNCHANGED << envVars, pageVars, cam, calls >>

\* the 'Clear All Data' button of SettingsPage: it has no onClick
AppClearAllData ==
    /\ AppBrowsing
    /\ app.currentPage = "settings"
    /\ app' = [app EXCEPT !.lastOp = "clear"]
    /\ UNCHANGED << envVars, pageVars, now, cam, calls >>

NextApp ==
    \/ AppMount
    \/ AppNavigate
    \/ AppAnalyzeNew
    \/ AppCaptureClose
    \/ AppFileUpload
    \/ AppBack
    \/ AppHandleAnalyze
    \/ AppAnalyzeSettle
    \/ AppHandleSave
    \/ AppClearAllData

\* a history of n records saved one millisecond apart, in the order App writes
AppPreloaded(n, img) == [i \in 1..n |-> AppRecord(i, i, img, Salad)]

AppSlots == {None, InvalidText, JSONStringify(AppPreloaded(1, Thumbnail)),
             JSONStringify(AppPreloaded(20, Thumbnail))}

\* the page of src/index.tsx is not the one loaded: its state stays as constructed
PageIdle ==
    /\ slot = None
    /\ image = None /\ result = None /\ loading = FALSE /\ error = None
    /\ history = << >>
    /\ pc = "idle" /\ flowImage = None /\ apiImage = None /\ data = None
    /\ storageImage = None /\ attempt = 0
    /\ flows = 0 /\ outcomes = << >> /\ raws = << >> /\ delays = << >>
    /\ svcCalls = 0 /\ caught = None /\ lastSave = None
    /\ saved = << >> /\ degraded = FALSE
    /\ calls = << >>

InitApp ==
    /\ apiKey = TRUE /\ canvasCtx = TRUE
    /\ quotaLimit \in QuotaLimits
    /\ PageIdle
    /\ cam = CameraClosed("app")
    /\ \E store \in AppSlots :
          /\ store # None => ~AppSetItemThrows(store, quotaLimit)
          /\ app = AppUnloaded(store)
          /\ now = Len(AppStoredRecords(store))

SpecApp == InitApp /\ [][NextApp]_vars

(***************************************************************************)
(* CameraCapture in its three variants: "first" (src/index.tsx:149),       *)
(* "app" (src/app.tsx:121) and "richer" (src/index.tsx:659).  Streams are  *)
(* numbered by the getUserMedia request that obtained them; stream 0 is    *)
(* null.  pending holds the requests of the rendered component, orphaned   *)
(* those of components that are gone, running the streams with a live      *)
(* track.                                                                  *)
(***************************************************************************)
CameraVariants == {"first", "app", "richer"}

\* the variant calls getUserMedia from its mount effect
StartsOnMount(variant) == variant # "richer"

\* the stream the effect's cleanup closure sees: with dependencies [] it is
\* the null of the first render, with [stream] the current one
CleanupStream(c) == IF c.variant = "richer" THEN c.stream ELSE 0

\* the component is removed: its cleanup runs, its state is gone and its
\* requests in flight stay in flight
Unmounted(c, stopped, exit) ==
    [c EXCEPT !.mounted = FALSE, !.stream = 0, !.cameraStarted = FALSE,
              !.permissionError = FALSE,
              !.pending = {}, !.orphaned = c.orphaned \cup c.pending,
              !.running = c.running \ (stopped \cup {CleanupStream(c)}),
              !.exit = exit]

\* canvas.toDataURL('image/jpeg', 0.8) of a video frame
CameraFrame ==
    [cap |-> 4, w |-> 1280, h |-> 720, len |-> JpegLength(1280, 720, 8),
     decodable |-> TRUE, q |-> 8]

\* the parent renders the button that opens the camera
CameraOffered ==
    IF cam.variant = "app"
    THEN app.mounted /\ app.captureMode /\ app.analysisImage = None
    ELSE image = None

\* setCameraOpen(true); the first render and, where it starts the camera,
\* the mount effect up to its await
OpenCamera ==
    /\ ~cam.mounted
    /\ CameraOffered
    /\ StartsOnMount(cam.variant) => cam.requests < MaxStreams
    /\ cam' = IF StartsOnMount(cam.variant)
              THEN [cam EXCEPT !.mounted = TRUE, !.exit = "none",
                               !.pending = {cam.requests + 1},
                               !.requests = cam.requests + 1]
              ELSE [cam EXCEPT !.mounted = TRUE, !.exit = "none"]
    /\ UNCHANGED << envVars, pageVars, now, app, calls >>

\* startCamera of the richer variant up to its await
StartCamera ==
    /\ cam.mounted /\ cam.variant = "richer" /\ ~cam.cameraStarted
    /\ cam.requests < MaxStreams
    /\ cam' = [cam EXCEPT !.permissionError = FALSE,
                          !.pending = cam.pending \cup {cam.requests + 1},
                          !.requests = cam.requests + 1]
    /\ UNCHANGED << envVars, pageVars, now, app, calls >>

\* getUserMedia resolves with a live stream: setStream(s); in the richer
\* variant the effect on [stream] first cleans up the stream it replaces
CameraGranted ==
    /\ \E s \in cam.pending \cup cam.orphaned :
          cam' = IF s \in cam.pending
                 THEN [cam EXCEPT
                         !.pending = cam.pending \ {s},
                         !.stream = s,
                         !.cameraStarted = (cam.variant = "richer"),
                         !.running = (cam.running \ {CleanupStream(cam)}) \cup {s}]
                 ELSE [cam EXCEPT !.orphaned = cam.orphaned \ {s},
                                  !.running = cam.running \cup {s}]
    /\ UNCHANGED << envVars, pageVars, now, app, calls >>

\* getUserMedia rejects: alert and onClose(), or setPermissionError
CameraDenied ==
    /\ \E s \in cam.pending \cup cam.orphaned :
          LET rest == [cam EXCEPT !.pending = cam.pending \ {s},
                                  !.orphaned = cam.orphaned \ {s}]
          IN  cam' = IF StartsOnMount(cam.variant)
                     THEN IF cam.mounted THEN Unmounted(rest, {}, "denied") ELSE rest
                     ELSE IF s \in cam.pending
                          THEN [rest EXCEPT !.permissionError = TRUE]
                          ELSE rest
    /\ UNCHANGED << envVars, pageVars, now, app, calls >>

\* handleCapture, then onCapture in the parent.  Without a stream the video
\* has no size and the frame is the empty string, which every test of the
\* parent treats as null.
CameraHandleCapture ==
    /\ cam.mounted
    /\ cam.variant = "richer" => cam.cameraStarted
    /\ canvasCtx
    /\ LET base64 == IF cam.stream # 0 THEN CameraFrame ELSE None
       IN  IF cam.variant = "app"
           THEN /\ app' = [app EXCEPT !.analysisImage = base64, !.lastOp = "capture"]
                /\ cam' = IF base64 # None
                          THEN Unmounted(cam, {cam.stream}, "capture")
                          ELSE [cam EXCEPT !.running = cam.running \ {cam.stream}]
                /\ UNCHANGED << image, result, error >>
           ELSE /\ image' = base64
                /\ result' = None
                /\ error' = None
                /\ cam' = Unmounted(cam, {cam.stream}, "capture")
                /\ UNCHANGED app
    /\ UNCHANGED << envVars, slot, now, loading, history, flowVars, obsVars, calls >>

\* the X button: onClose
CameraClose ==
    /\ cam.mounted
    /\ cam' = Unmounted(cam, {}, "close")
    /\ UNCHANGED << envVars, pageVars, now, app, calls >>

\* handleFileUpload of the richer CameraCapture: onCapture(base64)
CameraFileUpload ==
    /\ cam.mounted /\ cam.variant = "richer" /\ ~cam.cameraStarted
    /\ \E img \in Captures : image' = img
    /\ result' = None
    /\ error' = None
    /\ cam' = Unmounted(cam, {}, "upload")
    /\ UNCHANGED << envVars, slot, now, loading, history, flowVars, obsVars, app, calls >>

NextCamera ==
    \/ OpenCamera
    \/ StartCamera
    \/ CameraGranted
    \/ CameraDenied
    \/ CameraHandleCapture
    \/ CameraClose
    \/ CameraFileUpload

\* App of src/app.tsx showing CapturePage
AppCapturing == [AppUnloaded(None) EXCEPT !.mounted = TRUE, !.captureMode = TRUE]

InitCamera ==
    /\ apiKey = TRUE /\ canvasCtx \in BOOLEAN /\ quotaLimit = 5242880
    /\ PageIdle
    /\ now = 0
    /\ \E variant \in CameraVariants :
          /\ cam = CameraClosed(variant)
          /\ app = IF variant = "app" THEN AppCapturing ELSE AppUnmounted

SpecCamera == InitCamera /\ [][NextCamera]_vars

(***************************************************************************)
(* compressImage at its two call sites, over images of many sizes: the     *)
(* image handed to handleAnalyze is flowImage, the promises resolve to     *)
(* apiImage and storageImage.                                              *)
(***************************************************************************)
SampleWidths == {50, 100, 200, 800, 1600, 4032}
SampleHeights == {50, 200, 1200, 3024}

SampleImage(w, h, decodable) ==
    [cap |-> 0, w |-> w, h |-> h, len |-> 600 + w * h, decodable |-> decodable, q |-> 0]

SampleImages ==
    { SampleImage(w, h, d) : w \in SampleWidths, h \in SampleHeights, d \in BOOLEAN }

\* await compressImage(image, 800, 0.8) of handleAnalyze
CompressForUpload ==
    /\ flowImage # None /\ apiImage = None
    /\ apiImage' = compressImage(flowImage, UploadMaxWidth, UploadQuality, canvasCtx)
    /\ UNCHANGED << otherVars, envVars, slot, now, image, result, loading, error, history,
                    pc, flowImage, data, storageImage, attempt, obsVars >>

\* await compressImage(image, 200, 0.7) of saveMealRecord
CompressForStorage ==
    /\ flowImage # None /\ storageImage = None
    /\ storageImage' = compressImage(flowImage, StorageMaxWidth, StorageQuality, canvasCtx)
    /\ UNCHANGED << otherVars, envVars, slot, now, image, result, loading, error, history,
                    pc, flowImage, apiImage, data, attempt, obsVars >>

NextCompress ==
    \/ CompressForUpload
    \/ CompressForStorage

InitCompress ==
    /\ apiKey = TRUE /\ canvasCtx \in BOOLEAN /\ quotaLimit = 5242880
    /\ slot = None /\ now = 0
    /\ image \in SampleImages /\ flowImage = image
    /\ result = None /\ loading = FALSE /\ error = None
    /\ history = << >>
    /\ pc = "idle" /\ apiImage = None /\ data = None
    /\ storageImage = None /\ attempt = 0
    /\ flows = 0 /\ outcomes = << >> /\ raws = << >> /\ delays = << >>
    /\ svcCalls = 0 /\ caught = None /\ lastSave = None
    /\ saved = << >> /\ degraded = FALSE
    /\ cam = CameraClosed("richer")
    /\ app = AppUnmounted
    /\ calls = << >>

SpecCompress == InitCompress /\ [][NextCompress]_vars

(***************************************************************************)
(* saveMealRecord called several times side by side, outside the App: each *)
(* call is suspended at its two compressImage awaits and then reads and    *)
(* writes the slot in one synchronous block.                               *)
(***************************************************************************)
Callers == 1..MaxCalls

CallResult(c) == IF c = 1 THEN Salad ELSE Burger

NewCall(img, res) ==
    [pc |-> "new", image |-> img, result |-> res, seen |-> None,
     storageImage |-> None, record |-> None, path |-> "none", over |-> FALSE]

\* variant: the collection is read when the call starts, before its awaits
ExistingText_ReadAtStart(atStart, atWrite) == atStart

\* localStorage.getItem('mealHistory') runs after the awaits, next to setItem
ExistingText(atStart, atWrite) == atWrite

\* saveMealRecord(image, result) up to its first await
CallStart ==
    /\ \E c \in Callers :
          /\ calls[c].pc = "new"
          /\ calls' = [calls EXCEPT ![c].pc = "compress_storage", ![c].seen = slot]
    /\ UNCHANGED << envVars, pageVars, now, cam, app >>

\* compressImage(image, 200, 0.7) of a call resolves
CallStorageImageReady ==
    /\ \E c \in Callers :
          /\ calls[c].pc = "compress_storage"
          /\ calls' = [calls EXCEPT
                ![c].pc = "compress_again",
                ![c].storageImage =
                    compressImage(calls[c].image, StorageMaxWidth, StorageQuality, canvasCtx)]
    /\ UNCHANGED << envVars, pageVars, now, cam, app >>

\* compressImage(image, 800, 0.8) of a call resolves; the record is built,
\* the slot read and written
CallSave ==
    /\ \E c \in Callers, d \in ClockSteps :
          LET time == now + d
              record == MealRecord(time, time, calls[c].storageImage, calls[c].result, "snack")
              out == saveMealRecord(ExistingText(calls[c].seen, slot), record, quotaLimit)
          IN  /\ calls[c].pc = "compress_again"
              /\ now' = time
              /\ slot' = out.slot
              /\ calls' = [calls EXCEPT ![c].pc = "done", ![c].record = record,
                                        ![c].path = out.path, ![c].over = out.over]
    /\ UNCHANGED << envVars, image, result, loading, error, history, flowVars, obsVars,
                    cam, app >>

NextOverlap ==
    \/ CallStart
    \/ CallStorageImageReady
    \/ CallSave

OverlapSlots == {None, JSONStringify(Preloaded(6, Thumbnail)),
                 JSONStringify(Preloaded(18, Thumbnail))}

InitOverlap ==
    /\ apiKey = TRUE /\ canvasCtx \in BOOLEAN /\ quotaLimit = 5242880
    /\ slot \in OverlapSlots
    /\ now = Len(StoredRecords(slot))
    /\ image = None /\ result = None /\ loading = FALSE /\ error = None
    /\ history = getMealHistory(slot)
    /\ pc = "idle" /\ flowImage = None /\ apiImage = None /\ data = None
    /\ storageImage = None /\ attempt = 0
    /\ flows = 0 /\ outcomes = << >> /\ raws = << >> /\ delays = << >>
    /\ svcCalls = 0 /\ caught = None /\ lastSave = None
    /\ saved = StoredRecords(slot) /\ degraded = FALSE
    /\ cam = CameraClosed("richer")
    /\ app = AppUnmounted
    /\ \E imgs \in [Callers -> Captures] :
          calls = [c \in Callers |-> NewCall(imgs[c], CallResult(c))]

SpecOverlap == InitOverlap /\ [][NextOverlap]_vars

(***************************************************************************)
(* Slots whose content no save of these programs wrote: text that does not *)
(* parse, and the JSON text null.  Either page is loaded over such a slot. *)
(***************************************************************************)
CorruptSlots == {InvalidText, NullText}

InitCorrupt ==
    \/ InitWith({TRUE}, {TRUE}, {5242880}, CorruptSlots)
    \/ /\ apiKey = TRUE /\ canvasCtx = TRUE /\ quotaLimit = 5242880
       /\ PageIdle
       /\ now = 0
       /\ cam = CameraClosed("app")
       /\ \E store \in CorruptSlots : app = AppUnloaded(store)

NextCorrupt ==
    \/ Next
    \/ AppMount

SpecCorrupt == InitCorrupt /\ [][NextCorrupt]_vars

(***************************************************************************)
(* Properties of the retry wrapper (checked under Spec).                   *)
(***************************************************************************)
Attempts == 1..Len(raws)
InvocationThrew == caught # None /\ pc = "idle" /\ raws # << >>

\* C1: a 429 or 503 failure of the service on attempt n < maxRetries makes the
\* wrapper sleep the backoff delay and go on to attempt n+1; it does not fail
\* to the caller.
C1_TransientFailureRetried ==
    \A i \in Attempts :
        (IsTransient(raws[i]) /\ i < DefaultMaxRetries) =>
            /\ Len(delays) >= i
            /\ Len(raws) = i => (pc = "backoff" /\ caught = None)

\* C2: one invocation calls analyzeImage at most maxRetries times and makes no
\* call after a call that succeeded.
C2_AttemptsBounded ==
    /\ Len(outcomes) <= DefaultMaxRetries
    /\ svcCalls <= DefaultMaxRetries
    /\ attempt <= DefaultMaxRetries
    /\ \A i \in 1..Len(outcomes) : outcomes[i] = "ok" => i = Len(outcomes)
    /\ pc \in {"generate", "backoff"} => \A i \in 1..Len(outcomes) : outcomes[i] # "ok"

C2_Witness ==
    /\ pc = "compress_storage"
    /\ outcomes = << "ok" >>
    /\ svcCalls = 1

\* the failures the spec calls non-transient: bad request, invalid credential,
\* forbidden, empty response, malformed result, missing API key
NonTransient(raw) ==
    \/ raw.kind = "nokey"
    \/ raw.kind = "reply" /\ ~analyzeImage(raw).ok
    \/ raw.kind = "error" /\ (raw.status \in {400, 403} \/ "API_KEY" \in raw.words)

\* C3: after a non-transient failure the wrapper makes no further attempt and
\* sleeps no delay, and the failure is the one handleAnalyze catches; with the
\* API key missing the service is not called.
C3_NonTransientFailsAtOnce ==
    \A i \in Attempts :
        NonTransient(raws[i]) =>
            /\ i = 1 /\ Len(raws) = 1
            /\ delays = << >>
            /\ pc = "idle" /\ ~loading
            /\ caught # None /\ caught.msg = outcomes[1]
            /\ raws[i] = MissingKey => svcCalls = 0
            /\ raws[i] # MissingKey => svcCalls = 1

C3_Witness ==
    /\ raws = << BadRequestFailure >>
    /\ caught = NewError("bad_request")
    /\ svcCalls = 1 /\ delays = << >> /\ ~loading

\* C4: when every attempt ends in a quota failure, the invocation ends after
\* exactly maxRetries attempts with a retries-exhausted error, which is not
\* the error of the last attempt.
C4_RetriesExhaustedError ==
    (InvocationThrew /\ \A i \in Attempts : raws[i] = QuotaFailure) =>
        /\ Len(raws) = DefaultMaxRetries
        /\ caught.msg = "retries_exhausted"

C6_BackoffDelays ==
    /\ Len(delays) < DefaultMaxRetries
    /\ \A i \in Attempts :
        (IsTransient(raws[i]) /\ i + 1 <= DefaultMaxRetries) =>
            /\ Len(delays) >= i
            /\ delays[i] = Pow2(i + 1 - 1) * 1000

(***************************************************************************)
(* Properties of the history store (checked under SpecStore).              *)
(***************************************************************************)
\* C7: while every save took the normal path, the stored collection is the
\* 20 most recently saved records, most recent first; each save puts its
\* record at index 0 and keeps the earlier records in their order.
C7_MostRecentTwenty ==
    ~degraded =>
        /\ getMealHistory(slot) = Take(saved, HistoryCap)
        /\ lastSave # None =>
            /\ getMealHistory(slot)[1] = lastSave.record
            /\ Tail(getMealHistory(slot)) = Take(lastSave.before, HistoryCap - 1)

C7_Witness ==
    /\ ~degraded
    /\ lastSave # None
    /\ Len(saved) > HistoryCap
    /\ Len(getMealHistory(slot)) = HistoryCap
    /\ getMealHistory(slot)[1].result = Burger
    /\ history = getMealHistory(slot)

\* C8: when the collection about to be persisted serializes to more than
\* 4 MiB, what is persisted has at most 10 records and serializes to at most
\* 4 MiB.
C8_BackUnderBudget ==
    (lastSave # None /\ lastSave.over /\ lastSave.path = "written") =>
        /\ Len(getMealHistory(slot)) <= FallbackCap
        /\ StringLength(slot) <= ByteBudget

\* C9: after a storage-quota failure of the write, the fallback persists the
\* record being saved followed by the 4 most recent records stored before.
C9_FallbackKeepsNewRecord ==
    (lastSave # None /\ lastSave.path = "quota_fallback") =>
        /\ getMealHistory(slot) = Take(lastSave.toPersist, QuotaFallbackCap)
        /\ getMealHistory(slot) =
              Take(<< lastSave.record >> \o lastSave.before, QuotaFallbackCap)

\* C10: a storage-quota failure never surfaces: saveMealRecord does not raise
\* and handleAnalyze sets no error message, also when the fallback write
\* exceeds the quota too.
C10_QuotaFailureNotSurfaced ==
    (lastSave # None /\ lastSave.path \in {"quota_fallback", "quota_fallback_failed"}) =>
        /\ lastSave.raised = None
        /\ lastSave.errorAfter = None

(***************************************************************************)
(* Properties of loading (checked under SpecCorrupt).                      *)
(***************************************************************************)
\* C11: whatever the slot holds (nothing, text that does not parse, JSON text
\* that is not an array), getMealHistory and loadData return an array.
C11_LoadReturnsSequence ==
    /\ getMealHistoryResult(slot).isArray
    /\ loadDataResult(app.slot).isArray

\* C12: after the 'Clear All Data' button of SettingsPage was activated, the
\* slot holds no records, whatever it held before.
C12_ClearLeavesNoRecords ==
    app.lastOp = "clear" => Len(AppStoredRecords(app.slot)) = 0

(***************************************************************************)
(* Properties of analyzeImage (checked under Spec).                        *)
(***************************************************************************)
HasAllFields(fields) ==
    /\ RequiredFields \subseteq DOMAIN fields
    /\ MacroFields \subseteq DOMAIN fields.macros

\* C13: a reply that parses as a JSON object but lacks one of the six
\* top-level fields or one of the four macro fields makes analyzeImage fail.
C13_MissingFieldRejected ==
    \A i \in Attempts :
        ( /\ raws[i].kind = "reply"
          /\ raws[i].text # None
          /\ raws[i].text.json = "object"
          /\ ~HasAllFields(raws[i].text.fields) ) => outcomes[i] # "ok"

\* the category the status-like signal of a failure stands for
CategoryByStatus(e) ==
    IF e.status = 429 THEN "quota"
    ELSE IF e.status = 403 THEN "forbidden"
    ELSE IF e.status = 400 THEN "bad_request"
    ELSE IF IsNetwork(e) THEN "network"
    ELSE "unknown"

\* C14: the category analyzeImage gives a failure of the service is the one
\* of its status (429 quota, 403 forbidden, 400 bad request, a connectivity
\* failure network, else unknown), whatever words its message contains; a
\* message naming the API key is left aside as the credential signal.
C14_CategoryFollowsStatus ==
    \A i \in Attempts :
        (raws[i].kind = "error" /\ "API_KEY" \notin raws[i].words)
            => outcomes[i] = CategoryByStatus(raws[i])

(***************************************************************************)
(* Properties of the persisted arrays of both programs.                    *)
(***************************************************************************)
MostRecentFirst(records) ==
    \A i \in 1..(Len(records) - 1) : records[i].timestamp >= records[i + 1].timestamp

\* C16: after a save, in index.tsx as in app.tsx, the persisted array is in
\* most-recent-first order and holds at most 20 entries (checked under SpecApp).
C16_SavedMostRecentFirstTwenty ==
    /\ lastSave # None =>
          /\ MostRecentFirst(StoredRecords(slot))
          /\ Len(StoredRecords(slot)) <= HistoryCap
    /\ app.lastOp = "save" =>
          /\ MostRecentFirst(AppStoredRecords(app.slot))
          /\ Len(AppStoredRecords(app.slot)) <= HistoryCap

\* C17: when an analysis returned a result and the save that followed wrote
\* the slot, the first record getMealHistory loads carries that result, field
\* for field, and it is the object the service's reply text held (checked
\* under SpecStore).
C17_SavedResultLoadsFirst ==
    (pc = "idle" /\ data # None /\ lastSave # None /\ lastSave.path = "written") =>
        LET loaded == getMealHistory(slot)
        IN  /\ Len(loaded) >= 1
            /\ DOMAIN loaded[1].result = DOMAIN data
            /\ \A f \in DOMAIN data : loaded[1].result[f] = data[f]
            /\ data = raws[Len(raws)].text.fields

C17_Witness ==
    /\ pc = "idle" /\ data = Burger
    /\ lastSave # None /\ lastSave.path = "written" /\ Len(lastSave.before) > 0
    /\ getMealHistory(slot)[1].result = Burger

IdsDistinct(records) ==
    \A i, j \in 1..Len(records) : i # j => records[i].id # records[j].id

\* C18: no two records of a persisted array have the same id, whatever the
\* clock read at the saves, two saves in one millisecond included (checked
\* under SpecStore).
C18_IdsUnique ==
    /\ IdsDistinct(StoredRecords(slot))
    /\ IdsDistinct(AppStoredRecords(app.slot))

(***************************************************************************)
(* Properties of compressImage (checked under SpecCompress).               *)
(***************************************************************************)
CannotReencode == ~flowImage.decodable \/ ~canvasCtx

\* C19: each compressImage promise resolves to an image string, and to the
\* original string when the image cannot be decoded or no 2D context exists.
C19_CompressFallsBack ==
    /\ apiImage # None =>
          /\ "len" \in DOMAIN apiImage
          /\ CannotReencode => apiImage = flowImage
    /\ storageImage # None =>
          /\ "len" \in DOMAIN storageImage
          /\ CannotReencode => storageImage = flowImage

C19_Witness ==
    /\ flowImage.decodable /\ ~canvasCtx
    /\ apiImage = flowImage /\ storageImage = flowImage

NotUpscaled(out, maxWidth) ==
    /\ out.w <= maxWidth /\ out.h <= maxWidth
    /\ out.w <= flowImage.w /\ out.h <= flowImage.h

\* C20: a re-encoded image is at most maxWidth wide and high and no larger
\* than the input in either dimension.
C20_NeverUpscaled ==
    /\ (apiImage # None /\ ~CannotReencode) => NotUpscaled(apiImage, UploadMaxWidth)
    /\ (storageImage # None /\ ~CannotReencode) => NotUpscaled(storageImage, StorageMaxWidth)

(***************************************************************************)
(* Properties of CameraCapture (checked under SpecCamera).                 *)
(***************************************************************************)
\* C15: while no CameraCapture is rendered and no camera request is in
\* flight, no stream a CameraCapture obtained has a live track.
C15_CameraReleased ==
    (~cam.mounted /\ cam.orphaned = {}) => cam.running = {}

(***************************************************************************)
(* Properties of the images that are persisted and sent.                   *)
(***************************************************************************)
\* re-encoded at 200 px and quality 0.7, or an original that does not decode
StorageSized(img) ==
    \/ img.q = StorageQuality /\ img.w <= StorageMaxWidth /\ img.h <= StorageMaxWidth
    \/ ~img.decodable

AllStorageSized(records) == \A i \in 1..Len(records) : StorageSized(records[i].image)

\* C21: every persisted record, in index.tsx as in app.tsx, carries the
\* storage variant of its capture (or the original when it does not decode),
\* and the image in an inference request is the upload variant of the capture
\* (checked under SpecApp).
C21_PersistedImageIsStorageVariant ==
    /\ AllStorageSized(StoredRecords(slot))
    /\ AllStorageSized(AppStoredRecords(app.slot))
    /\ pc = "generate" =>
          apiImage = compressImage(flowImage, UploadMaxWidth, UploadQuality, canvasCtx)

(***************************************************************************)
(* Properties of the handleAnalyze flow (checked under Spec).              *)
(***************************************************************************)
InFlight == pc # "idle"

\* C22: a handleAnalyze execution starts only while none is in flight,
\* whatever the user did (reset, capture) while the previous one was pending.
C22_FlowsSerialized == [][flows' # flows => ~InFlight]_vars

\* an execution is pending while the user has reset and holds another image
C22_Witness == pc = "generate" /\ image # None /\ image # flowImage /\ flows < MaxFlows

\* the steps of one execution up to each suspension point
UploadCompressed == apiImage # None
AnalysisSucceeded == data # None
StorageCompressed == storageImage # None

\* C23: in one execution the analysis starts after the upload image is
\* compressed, the storage image is compressed after the analysis succeeded,
\* the slot is written only then, in the last step of the execution, and the
\* in-memory history changes only in the step that wrote the slot.
C23_StepsInOrder ==
    /\ [](pc \in {"generate", "backoff"} => UploadCompressed /\ ~AnalysisSucceeded)
    /\ [](pc \in {"compress_storage", "compress_again"} =>
            UploadCompressed /\ AnalysisSucceeded /\ outcomes[Len(outcomes)] = "ok")
    /\ [](pc = "compress_again" => StorageCompressed)
    /\ [](pc \in {"compress_upload", "generate", "backoff", "compress_storage"} =>
            ~StorageCompressed)
    /\ [][slot' # slot =>
            pc = "compress_again" /\ pc' = "idle" /\ AnalysisSucceeded /\ StorageCompressed]_vars
    /\ [][history' # history => slot' # slot /\ history' = getMealHistory(slot')]_vars

\* a save that wrote the slot and refreshed the history
C23_Witness ==
    /\ pc = "idle" /\ lastSave # None /\ lastSave.path = "written"
    /\ AnalysisSucceeded /\ UploadCompressed /\ StorageCompressed
    /\ history = getMealHistory(slot) /\ history # lastSave.before

(***************************************************************************)
(* Frame properties of saveMealRecord (checked under SpecStore).           *)
(***************************************************************************)
IsPrefix(short, long) ==
    /\ Len(short) <= Len(long)
    /\ \A i \in 1..Len(short) : short[i] = long[i]

\* C24: after a saveMealRecord call the persisted records, the new record
\* set aside, are the first records persisted before the call, each
\* unchanged in every field.
C24_OnlyOldEndEvicted ==
    lastSave # None =>
        LET after == getMealHistory(slot)
        IN  \/ IsPrefix(after, lastSave.before)
            \/ /\ after # << >>
               /\ after[1] = lastSave.record
               /\ IsPrefix(Tail(after), lastSave.before)

\* the quota fallback evicted old records
C24_Witness ==
    /\ lastSave # None /\ lastSave.path = "quota_fallback"
    /\ Len(getMealHistory(slot)) = QuotaFallbackCap
    /\ Len(lastSave.before) > QuotaFallbackCap

(***************************************************************************)
(* Properties of a failed analysis (checked under Spec).                   *)
(***************************************************************************)
\* the step in which handleAnalyze catches the failure of the analysis
AnalysisFailsStep == InFlight /\ pc' = "idle" /\ data' = None

\* the analyze button is rendered and enabled
AnalyzeOffered == image # None /\ result = None /\ ~loading

\* C25: the step in which an analysis fails sets the error message and
\* clears loading, and leaves the image, the result (none), the slot and the
\* history as they were, so that analyze is offered again for an image held.
C25_FailureKeepsImage ==
    [][AnalysisFailsStep =>
          /\ image' = image
          /\ error' # None
          /\ result' = None /\ result = None
          /\ slot' = slot /\ history' = history
          /\ ~loading'
          /\ image' # None => AnalyzeOffered']_vars

\* an analysis of the image still held has failed
C25_Witness ==
    /\ pc = "idle" /\ caught # None /\ data = None
    /\ image # None /\ image = flowImage
    /\ error # None /\ AnalyzeOffered

(***************************************************************************)
(* Termination of an execution (checked under SpecLive).                   *)
(***************************************************************************)
\* C26: when every pending decode, service call and timer completes, an
\* execution of handleAnalyze that started finishes and loading is false
\* again; no reset or capture during it removes it.
C26_ExecutionFinishes ==
    /\ (InFlight ~> (~InFlight /\ ~loading))
    /\ [][InFlight /\ ~InFlight' => ~loading']_vars
    /\ [](loading <=> InFlight)

\* an execution finished, with a save, after the user had reset the page
C26_Witness ==
    /\ ~InFlight /\ ~loading /\ flows > 0
    /\ lastSave # None /\ caught = None /\ image = None /\ result # None

(***************************************************************************)
(* The result shown next to an image (checked under Spec).                 *)
(***************************************************************************)
\* C27: whenever an image and a result are both held, the result was
\* obtained for that image: the image is the one the execution that set the
\* result had captured.
C27_ResultBelongsToImage ==
    (image # None /\ result # None) => image = flowImage

(***************************************************************************)
(* Overlapping saveMealRecord calls (checked under SpecOverlap).           *)
(***************************************************************************)
AllCallsDone == \A c \in Callers : calls[c].pc = "done"

Persisted(record) ==
    \E i \in 1..Len(getMealHistory(slot)) : getMealHistory(slot)[i] = record

\* C28: when calls of saveMealRecord that ran side by side have all
\* finished, each on the written path and under the byte budget, the record
\* of every call is in the persisted collection.
C28_NoLostUpdate ==
    (AllCallsDone /\ \A c \in Callers : calls[c].path = "written" /\ ~calls[c].over) =>
        \A c \in Callers : Persisted(calls[c].record)

\* two calls were both past their read-free awaits before either wrote
C28_Witness ==
    /\ AllCallsDone
    /\ \A c \in Callers : calls[c].path = "written" /\ calls[c].seen = calls[1].seen
    /\ Len(getMealHistory(slot)) = Len(StoredRecords(calls[1].seen)) + MaxCalls
    /\ Persisted(calls[1].record) /\ Persisted(calls[2].record)

(***************************************************************************)
(* Saving over a corrupt slot (checked under SpecCorrupt).                 *)
(***************************************************************************)
\* C29: after a saveMealRecord call that raised nothing, whatever the slot
\* held before (unparseable text included), getMealHistory returns an array
\* whose first element is the record of that call.
C29_SaveRecoversCorruptSlot ==
    (lastSave # None /\ lastSave.raised = None) =>
        /\ getMealHistoryResult(slot).isArray
        /\ Len(StoredRecords(slot)) >= 1
        /\ StoredRecords(slot)[1] = lastSave.record

\* the page content renderContent of src/app.tsx chooses
AppRendered(a) ==
    IF a.analysisImage # None THEN "analysis"
    ELSE IF a.captureMode THEN "capture"
    ELSE a.currentPage

\* C30: after handleSaveRecord ran with an analysis image, the new record is
\* the last of records, analysisImage is null and the home page is rendered
\* (checked under SpecApp).
C30_SaveReturnsHome ==
    app.lastOp = "save" =>
        /\ Len(app.records) >= 1
        /\ app.records[Len(app.records)].timestamp = now
        /\ app.analysisImage = None
        /\ AppRendered(app) = "home"

====
